---- MODULE Spec2Model ----
(***************************************************************************)
(* Model of the price aggregation and alerting engine of Crypto-Prices:    *)
(*   - telegram_alerts.py     : run_alert_monitor and its alert rules      *)
(*   - crypto_price_checker.py: the cycle statistics of display_results    *)
(*                              and append_to_csv, run_continuous_monitoring*)
(* Numbers that the program holds as floats are exact rationals <<n, d>>   *)
(* in lowest terms with d > 0; Python's None is the empty tuple.           *)
(***************************************************************************)
EXTENDS Integers, Sequences, FiniteSets, TLC

(***************************************************************************)
(* Bounds of the model.                                                    *)
(***************************************************************************)
StartTime == 10     \* time.time() when the session starts (exceeds every cooldown)
MaxFetch  == 3      \* polling cycles followed per session
Interval  == 2      \* the polling interval (seconds) of the session

(***************************************************************************)
(* Rational arithmetic (the program's float arithmetic, made exact).       *)
(***************************************************************************)
None == <<>>

Abs(x) == IF x < 0 THEN -x ELSE x

RECURSIVE GCD(_, _)
GCD(a, b) == IF b = 0 THEN a ELSE GCD(b, a % b)

Rat(n, d) ==
    LET g == GCD(Abs(n), Abs(d))
        s == IF d < 0 THEN -1 ELSE 1
    IN  <<(s * n) \div g, (s * d) \div g>>

Num(i)     == <<i, 1>>
RAdd(a, b) == Rat(a[1] * b[2] + b[1] * a[2], a[2] * b[2])
RSub(a, b) == Rat(a[1] * b[2] - b[1] * a[2], a[2] * b[2])
RMul(a, b) == Rat(a[1] * b[1], a[2] * b[2])
RDiv(a, b) == Rat(a[1] * b[2], a[2] * b[1])
RLt(a, b)  == a[1] * b[2] < b[1] * a[2]
RLe(a, b)  == a[1] * b[2] <= b[1] * a[2]
RAbs(a)    == <<Abs(a[1]), a[2]>>
IsZero(a)  == a[1] = 0

\* Python truthiness of an Optional[float]: None and 0 are both false.
Truthy(x) == x # None /\ ~IsZero(x)

RECURSIVE SeqSum(_)
SeqSum(s) == IF s = <<>> THEN Num(0) ELSE RAdd(Head(s), SeqSum(Tail(s)))

RECURSIVE SeqMax(_)
SeqMax(s) ==
    IF Len(s) = 1 THEN s[1]
    ELSE LET m == SeqMax(Tail(s)) IN IF RLt(m, Head(s)) THEN Head(s) ELSE m

RECURSIVE SeqMin(_)
SeqMin(s) ==
    IF Len(s) = 1 THEN s[1]
    ELSE LET m == SeqMin(Tail(s)) IN IF RLt(Head(s), m) THEN Head(s) ELSE m

\* statistics.mean of a non-empty list
mean(s) == RDiv(SeqSum(s), Num(Len(s)))

(***************************************************************************)
(* Providers and the quotes one fetch round can return.                    *)
(***************************************************************************)
ProviderOrder == <<"CoinGecko", "Binance", "Coinbase">>
Providers     == {ProviderOrder[i] : i \in 1..Len(ProviderOrder)}

PriceVals == {0, 99800, 100000, 100200}
Quote     == {None} \cup {Num(v) : v \in PriceVals}

\* every result of one fetch round: one entry per provider, None for a
\* provider that failed
AllResults == [Providers -> Quote]

\* the fetch rounds a monitoring session is followed through: every provider
\* answers with its quote or fails, or a provider quotes zero
Round(cg, bn, cb) == [CoinGecko |-> cg, Binance |-> bn, Coinbase |-> cb]
FetchResults ==
    {Round(cg, bn, cb) : cg \in {None, Num(100000)},
                         bn \in {None, Num(100200)},
                         cb \in {None, Num(99800)}}
    \cup {Round(None, Num(0), None), Round(None, Num(0), Num(0))}

\* [p for p in prices.values() if p is not None], in dict order
ValidPrices(prices) ==
    LET F[i \in 0..Len(ProviderOrder)] ==
            IF i = 0 THEN <<>>
            ELSE IF prices[ProviderOrder[i]] # None
                 THEN Append(F[i - 1], prices[ProviderOrder[i]])
                 ELSE F[i - 1]
    IN  F[Len(ProviderOrder)]

(***************************************************************************)
(* The cycle statistics, as each place of the program computes them.       *)
(* A result is [average, spread, spread_pct, raised]; a field the place    *)
(* does not compute is None; raised is TRUE when the computation ends in   *)
(* ZeroDivisionError.                                                      *)
(***************************************************************************)
Stats(a, s, p) == [average |-> a, spread |-> s, spread_pct |-> p, raised |-> FALSE]
Raised         == [average |-> None, spread |-> None, spread_pct |-> None, raised |-> TRUE]

\* max(valid_prices) - min(valid_prices)
Spread(valid) == RSub(SeqMax(valid), SeqMin(valid))

\* (spread / avg_price) * 100
Percent(spread, avg) == RMul(RDiv(spread, avg), Num(100))

\* crypto_price_checker.py append_to_csv, "Calculate stats"
append_to_csv_stats(prices) ==
    LET valid_prices == ValidPrices(prices)
        avg_price    == IF valid_prices # <<>> THEN mean(valid_prices) ELSE None
        spread       == IF Len(valid_prices) >= 2 THEN Spread(valid_prices) ELSE None
        spread_pct   == IF Truthy(spread) /\ Truthy(avg_price)
                        THEN Percent(spread, avg_price) ELSE None
    IN  Stats(avg_price, spread, spread_pct)

\* crypto_price_checker.py display_results, the summary block
display_results_stats(prices) ==
    LET valid_prices == ValidPrices(prices) IN
    IF Len(valid_prices) >= 2
    THEN LET avg_price == mean(valid_prices)
             spread    == Spread(valid_prices)
         IN  Stats(avg_price, spread,
                   IF RLt(Num(0), avg_price) THEN Percent(spread, avg_price) ELSE Num(0))
    ELSE Stats(None, None, None)

\* telegram_alerts.py check_spread_alert, up to the threshold test
check_spread_alert_stats(prices) ==
    LET valid_prices == ValidPrices(prices) IN
    IF Len(valid_prices) < 2 THEN Stats(None, None, None)
    ELSE LET spread    == Spread(valid_prices)
             avg_price == mean(valid_prices)
         IN  IF IsZero(avg_price) THEN Raised
             ELSE Stats(avg_price, spread, Percent(spread, avg_price))

\* telegram_alerts.py run_alert_monitor, avg_price and spread_pct of the cycle
run_alert_monitor_stats(prices) ==
    LET valid_prices == ValidPrices(prices) IN
    IF valid_prices = <<>> THEN Stats(None, None, None)
    ELSE LET avg_price == mean(valid_prices) IN
         IF Len(valid_prices) > 1
         THEN IF IsZero(avg_price) THEN Raised
              ELSE Stats(avg_price, Spread(valid_prices),
                         Percent(Spread(valid_prices), avg_price))
         ELSE Stats(avg_price, None, Num(0))

(***************************************************************************)
(* telegram_alerts.py: AlertConfig, AlertState and the alert rules.        *)
(***************************************************************************)
Rules == {"spread", "above", "below", "change", "status"}

\* AlertConfig(...)
AlertConfig(thr, above, below, cooldown, status) ==
    [spread_threshold    |-> thr,
     price_above         |-> above,
     price_below         |-> below,
     price_change_pct    |-> Rat(1, 5),
     price_change_window |-> 3,
     cooldown_seconds    |-> cooldown,
     status_interval     |-> status]

\* a configuration whose price-above threshold lies under its price-below
\* threshold: --price-above 100000 --price-below 100200
OverlapConfigs ==
    {AlertConfig(Rat(2, 5), Num(100000), Num(100200), 3, None)}

\* the configurations a session is started with
Configs ==
    {AlertConfig(Rat(3, 10), Num(100000), Num(100000), 2, Num(3)),
     AlertConfig(Rat(1, 2), None, None, 3, Num(2)),
     AlertConfig(Rat(2, 5), Num(100000), Num(100000), 3, Num(0)),
     AlertConfig(Rat(2, 5), Num(0), None, 2, None)}

\* AlertState()
AlertState0 ==
    [last_spread_alert       |-> 0,
     last_price_above_alert  |-> 0,
     last_price_below_alert  |-> 0,
     last_price_change_alert |-> 0,
     last_status_update      |-> 0,
     price_history           |-> <<>>]

\* what one rule evaluation hands back: the state it leaves, its return value
\* and the path it took ("idle": condition false, "cooldown": suppressed,
\* "failed": the sink refused, "fired", "raise": ZeroDivisionError)
Result(st, path) == [state |-> st, ret |-> (path = "fired"), path |-> path]

\* the cooldown test of each rule, TRUE when the rule may fire
SpreadCooldownOver_Early(now, st, cfg) ==
    ~(now - st.last_spread_alert < cfg.cooldown_seconds - 1)
SpreadCooldownOver(now, st, cfg) ==
    ~(now - st.last_spread_alert < cfg.cooldown_seconds)
AboveCooldownOver_Strict(now, st, cfg) ==
    now - st.last_price_above_alert > cfg.cooldown_seconds
AboveCooldownOver(now, st, cfg) ==
    now - st.last_price_above_alert >= cfg.cooldown_seconds
BelowCooldownOver(now, st, cfg) ==
    now - st.last_price_below_alert >= cfg.cooldown_seconds
ChangeCooldownOver(now, st, cfg) ==
    ~(now - st.last_price_change_alert < cfg.cooldown_seconds)

\* the state a rule leaves after trying to deliver its message
Deliver_Always(st, field, now, ok) ==
    Result([st EXCEPT ![field] = now], IF ok THEN "fired" ELSE "failed")
Deliver(st, field, now, ok) ==
    IF ok THEN Result([st EXCEPT ![field] = now], "fired")
    ELSE Result(st, "failed")

\* "if spread_pct < config.spread_threshold: return False"
SpreadUnderThreshold_Inclusive(pct, cfg) == RLe(pct, cfg.spread_threshold)
SpreadUnderThreshold(pct, cfg) == RLt(pct, cfg.spread_threshold)

check_spread_alert(prc, cfg, st, now, ok) ==
    LET stats == check_spread_alert_stats(prc) IN
    IF Len(ValidPrices(prc)) < 2 THEN Result(st, "idle")
    ELSE IF stats.raised THEN Result(st, "raise")
    ELSE IF SpreadUnderThreshold(stats.spread_pct, cfg) THEN Result(st, "idle")
    ELSE IF ~SpreadCooldownOver(now, st, cfg) THEN Result(st, "cooldown")
    ELSE Deliver(st, "last_spread_alert", now, ok)

\* check_price_threshold_alerts, the "Price above alert" block
check_price_above(avg, cfg, st, now, ok) ==
    IF Truthy(cfg.price_above) /\ RLt(cfg.price_above, avg)
    THEN IF AboveCooldownOver(now, st, cfg)
         THEN Deliver(st, "last_price_above_alert", now, ok)
         ELSE Result(st, "cooldown")
    ELSE Result(st, "idle")

\* check_price_threshold_alerts, the "Price below alert" block
check_price_below_Shared(avg, cfg, st, now, ok) ==
    IF Truthy(cfg.price_below) /\ RLt(avg, cfg.price_below)
    THEN IF BelowCooldownOver(now, st, cfg)
         THEN Deliver(st, "last_price_above_alert", now, ok)
         ELSE Result(st, "cooldown")
    ELSE Result(st, "idle")
check_price_below(avg, cfg, st, now, ok) ==
    IF Truthy(cfg.price_below) /\ RLt(avg, cfg.price_below)
    THEN IF BelowCooldownOver(now, st, cfg)
         THEN Deliver(st, "last_price_below_alert", now, ok)
         ELSE Result(st, "cooldown")
    ELSE Result(st, "idle")

\* price_history after the append and the trim of check_price_change_alert
TrimmedHistory_AppendOnly(hist, now, avg, cfg) == Append(hist, <<now, avg>>)
TrimmedHistory_KeepLatest(hist, now, avg, cfg) == <<(<<now, avg>>)>>
TrimmedHistory(hist, now, avg, cfg) ==
    LET cutoff == now - cfg.price_change_window
        InWindow(e) == e[1] > cutoff
    IN  SelectSeq(Append(hist, <<now, avg>>), InWindow)

\* ((avg_price - oldest_price) / oldest_price) * 100
ChangePct(avg, oldest) == RMul(RDiv(RSub(avg, oldest), oldest), Num(100))

\* "if abs(change_pct) < config.price_change_pct: return False"
ChangeUnderThreshold_Signed(change_pct, cfg) == RLt(change_pct, cfg.price_change_pct)
ChangeUnderThreshold(change_pct, cfg) == RLt(RAbs(change_pct), cfg.price_change_pct)

check_price_change_alert(avg, cfg, st, now, ok) ==
    LET hist == TrimmedHistory(st.price_history, now, avg, cfg)
        st1  == [st EXCEPT !.price_history = hist]
    IN  IF Len(hist) < 2 THEN Result(st1, "idle")
        ELSE LET oldest_price == hist[1][2] IN
             IF IsZero(oldest_price) THEN Result(st1, "raise")
             ELSE IF ChangeUnderThreshold(ChangePct(avg, oldest_price), cfg)
                  THEN Result(st1, "idle")
             ELSE IF ~ChangeCooldownOver(now, st1, cfg) THEN Result(st1, "cooldown")
             ELSE Deliver(st1, "last_price_change_alert", now, ok)

\* send_status_update: is a status message due at time now
StatusDue(now, st, cfg) ==
    /\ cfg.status_interval # None
    /\ ~RLt(Num(now - st.last_status_update), cfg.status_interval)

send_status_update(cfg, st, now, ok) ==
    IF StatusDue(now, st, cfg)
    THEN Deliver(st, "last_status_update", now, ok)
    ELSE Result(st, "idle")

(***************************************************************************)
(* telegram_alerts.py run_alert_monitor as a state machine.                *)
(*   pc          position of the monitoring loop                           *)
(*   running     the module's stop flag                                    *)
(*   clock       time.time(), in seconds; it advances while the loop sleeps*)
(*   outcome     the path each rule took in the current cycle ("none"      *)
(*               before it is evaluated)                                   *)
(*   replies     the sink's answer to each rule's send in the current cycle *)
(*   prev        the AlertState at the start of the current cycle          *)
(*   pending     the rules whose latest delivery attempt, in an earlier    *)
(*               cycle, the sink refused                                   *)
(***************************************************************************)
VARIABLES pc, running, clock, config, prices, avg_price, spread_pct,
          now_thr, sent, wait_i, state, fetch_count, alerts_sent,
          outcome, replies, prev, pending

avars == <<pc, running, clock, config, prices, avg_price, spread_pct,
           now_thr, sent, wait_i, state, fetch_count, alerts_sent,
           outcome, replies, prev, pending>>

(***************************************************************************)
(* crypto_price_checker.py run_continuous_monitoring as a state machine.   *)
(*   m_pc, m_running, m_clock, m_i   as pc, running, clock, wait_i above   *)
(*   m_fetch_count                   the loop's fetch_count                *)
(*   m_timestamp, m_prices           the cycle's timestamp and prices      *)
(*   csv                             the rows appended to the CSV file     *)
(***************************************************************************)
VARIABLES m_pc, m_running, m_clock, m_i, m_fetch_count, m_timestamp, m_prices, csv

mvars == <<m_pc, m_running, m_clock, m_i, m_fetch_count, m_timestamp, m_prices, csv>>

(***************************************************************************)
(* One set of provider results handed to one of the places that compute    *)
(* the cycle statistics.                                                   *)
(*   s_prices  the provider results                                        *)
(*   s_place   the place that computed s_stats ("none" before)             *)
(***************************************************************************)
VARIABLES s_prices, s_place, s_stats

svars == <<s_prices, s_place, s_stats>>

(***************************************************************************)
(* One fetch round of one of the three programs.                           *)
(*   f_program    "checker", "alerts" or "cli"                             *)
(*   f_symbol, f_base   the symbol and quote currency given                *)
(*   f_providers  the providers queried, in order                          *)
(*   f_resp       the response of the latest network call                  *)
(*   f_got        what the latest adapter call gave                        *)
(*   f_results    the entries of the round so far                          *)
(*   f_status     "fetching", "returned", or "raised" when an exception    *)
(*                left the round                                           *)
(***************************************************************************)
VARIABLES f_program, f_symbol, f_base, f_providers, f_resp, f_got, f_results,
          f_status

fvars == <<f_program, f_symbol, f_base, f_providers, f_resp, f_got, f_results,
           f_status>>

(***************************************************************************)
(* terminal_dashboard.py: the CSV file and one refresh of draw_dashboard.  *)
(*   d_exists     the CSV file exists                                      *)
(*   d_file       the rows of the file, oldest first                       *)
(*   d_now        the time (whole seconds)                                 *)
(*   d_max_rows   max_rows of the latest read_csv_tail                     *)
(*   d_seconds    seconds of the latest select_window                      *)
(*   d_rows       what the latest read_csv_tail returned                   *)
(*   d_window     what the latest select_window returned                   *)
(*   d_pc         "shown" once a refresh has used the file as it is now    *)
(***************************************************************************)
VARIABLES d_exists, d_file, d_now, d_max_rows, d_seconds, d_rows, d_window, d_pc

dvars == <<d_exists, d_file, d_now, d_max_rows, d_seconds, d_rows, d_window, d_pc>>

vars == <<avars, mvars, svars, fvars, dvars>>

NoOutcome == [r \in Rules |-> "none"]
NoReplies == [r \in Rules |-> "none"]

Reply(res, ok) ==
    IF res.path \in {"fired", "failed"} THEN (IF ok THEN "ok" ELSE "refused")
    ELSE "none"

\* the state of run_alert_monitor before its loop, whatever the configuration
AlertStart ==
    /\ pc = "loop"
    /\ running = TRUE
    /\ clock = StartTime
    /\ prices = [p \in Providers |-> None]
    /\ avg_price = None
    /\ spread_pct = None
    /\ now_thr = 0
    /\ sent = FALSE
    /\ wait_i = 0
    /\ state = AlertState0
    /\ fetch_count = 0
    /\ alerts_sent = 0
    /\ outcome = NoOutcome
    /\ replies = NoReplies
    /\ prev = AlertState0
    /\ pending = {}

AlertInit == AlertStart /\ config \in Configs

\* while running: fetch_count += 1   /   the loop is left
LoopHead ==
    /\ UNCHANGED <<mvars, svars, fvars, dvars>>
    /\ pc = "loop"
    /\ IF running
       THEN /\ fetch_count < MaxFetch
            /\ fetch_count' = fetch_count + 1
            /\ pc' = "fetch"
       ELSE /\ pc' = "shutdown"
            /\ UNCHANGED fetch_count
    /\ UNCHANGED <<running, clock, config, prices, avg_price, spread_pct,
                   now_thr, sent, wait_i, state, alerts_sent,
                   outcome, replies, prev, pending>>

\* prices = fetch_all_prices(...), valid_prices, avg_price, spread_pct
FetchCycle ==
    /\ UNCHANGED <<mvars, svars, fvars, dvars>>
    /\ pc = "fetch"
    /\ \E got \in FetchResults :
         LET stats == run_alert_monitor_stats(got) IN
         /\ prices' = got
         /\ IF ValidPrices(got) = <<>>
            THEN /\ pc' = "nodata"
                 /\ UNCHANGED <<avg_price, spread_pct>>
            ELSE IF stats.raised
            THEN /\ pc' = "crashed"
                 /\ avg_price' = mean(ValidPrices(got))
                 /\ UNCHANGED spread_pct
            ELSE /\ pc' = "spread"
                 /\ avg_price' = stats.average
                 /\ spread_pct' = stats.spread_pct
    /\ UNCHANGED <<running, clock, config, now_thr, sent, wait_i, state,
                   fetch_count, alerts_sent, outcome, replies, prev, pending>>

\* time.sleep(interval); continue
NoDataSleep ==
    /\ UNCHANGED <<mvars, svars, fvars, dvars>>
    /\ pc = "nodata"
    /\ clock' = clock + Interval
    /\ pc' = "loop"
    /\ UNCHANGED <<running, config, prices, avg_price, spread_pct,
                   now_thr, sent, wait_i, state, fetch_count, alerts_sent,
                   outcome, replies, prev, pending>>

\* the bookkeeping common to the rule steps
Record(rule, res, ok) ==
    /\ state' = res.state
    /\ outcome' = [outcome EXCEPT ![rule] = res.path]
    /\ replies' = [replies EXCEPT ![rule] = Reply(res, ok)]
    /\ UNCHANGED <<prev, pending>>

\* if check_spread_alert(...): alerts_sent += 1
CheckSpread ==
    /\ UNCHANGED <<mvars, svars, fvars, dvars>>
    /\ pc = "spread"
    /\ \E ok \in BOOLEAN :
         LET res == check_spread_alert(prices, config, state, clock, ok) IN
         /\ Record("spread", res, ok)
         /\ pc' = IF res.path = "raise" THEN "crashed" ELSE "above"
         /\ alerts_sent' = IF res.ret THEN alerts_sent + 1 ELSE alerts_sent
    /\ UNCHANGED <<running, clock, config, prices, avg_price, spread_pct,
                   now_thr, sent, wait_i, fetch_count>>

\* check_price_threshold_alerts: now = time.time(), the price-above block
CheckAbove ==
    /\ UNCHANGED <<mvars, svars, fvars, dvars>>
    /\ pc = "above"
    /\ \E ok \in BOOLEAN :
         LET res == check_price_above(avg_price, config, state, clock, ok) IN
         /\ Record("above", res, ok)
         /\ sent' = res.ret
    /\ now_thr' = clock
    /\ pc' = "below"
    /\ UNCHANGED <<running, clock, config, prices, avg_price, spread_pct,
                   wait_i, fetch_count, alerts_sent>>

\* check_price_threshold_alerts: the price-below block and the return;
\* if check_price_threshold_alerts(...): alerts_sent += 1
CheckBelow ==
    /\ UNCHANGED <<mvars, svars, fvars, dvars>>
    /\ pc = "below"
    /\ \E ok \in BOOLEAN :
         LET res == check_price_below(avg_price, config, state, now_thr, ok) IN
         /\ Record("below", res, ok)
         /\ sent' = (sent \/ res.ret)
         /\ alerts_sent' = IF sent \/ res.ret THEN alerts_sent + 1 ELSE alerts_sent
    /\ pc' = "change"
    /\ UNCHANGED <<running, clock, config, prices, avg_price, spread_pct,
                   now_thr, wait_i, fetch_count>>

\* if check_price_change_alert(...): alerts_sent += 1
CheckChange ==
    /\ UNCHANGED <<mvars, svars, fvars, dvars>>
    /\ pc = "change"
    /\ \E ok \in BOOLEAN :
         LET res == check_price_change_alert(avg_price, config, state, clock, ok) IN
         /\ Record("change", res, ok)
         /\ pc' = IF res.path = "raise" THEN "crashed" ELSE "status"
         /\ alerts_sent' = IF res.ret THEN alerts_sent + 1 ELSE alerts_sent
    /\ UNCHANGED <<running, clock, config, prices, avg_price, spread_pct,
                   now_thr, sent, wait_i, fetch_count>>

\* send_status_update(...)
Status ==
    /\ UNCHANGED <<mvars, svars, fvars, dvars>>
    /\ pc = "status"
    /\ \E ok \in BOOLEAN :
         LET res == send_status_update(config, state, clock, ok) IN
         Record("status", res, ok)
    /\ pc' = "endcycle"
    /\ UNCHANGED <<running, clock, config, prices, avg_price, spread_pct,
                   now_thr, sent, wait_i, fetch_count, alerts_sent>>

\* the values a cycle leaves behind and never reads again
Forget ==
    /\ prices' = [p \in Providers |-> None]
    /\ avg_price' = None
    /\ spread_pct' = None
    /\ now_thr' = 0
    /\ sent' = FALSE
    /\ outcome' = NoOutcome
    /\ replies' = NoReplies
    /\ prev' = state
    /\ pending' = (pending \cup {r \in Rules : outcome[r] = "failed"})
                      \ {r \in Rules : outcome[r] = "fired"}

\* "if running:" before the wait; the cycle's locals are dead from here on
EndCycle ==
    /\ UNCHANGED <<mvars, svars, fvars, dvars>>
    /\ pc = "endcycle"
    /\ pc' = IF running THEN "wait" ELSE "loop"
    /\ wait_i' = 0
    /\ Forget
    /\ UNCHANGED <<running, clock, config, state, fetch_count, alerts_sent>>

\* for _ in range(interval): if not running: break; time.sleep(1)
WaitStep ==
    /\ UNCHANGED <<mvars, svars, fvars, dvars>>
    /\ pc = "wait"
    /\ IF wait_i < Interval /\ running
       THEN pc' = "sleep"
       ELSE pc' = "loop"
    /\ UNCHANGED <<running, clock, config, prices, avg_price, spread_pct,
                   now_thr, sent, wait_i, state, fetch_count, alerts_sent,
                   outcome, replies, prev, pending>>

\* time.sleep(1) returns
SleepReturn ==
    /\ UNCHANGED <<mvars, svars, fvars, dvars>>
    /\ pc = "sleep"
    /\ clock' = clock + 1
    /\ wait_i' = wait_i + 1
    /\ pc' = "wait"
    /\ UNCHANGED <<running, config, prices, avg_price, spread_pct,
                   now_thr, sent, state, fetch_count, alerts_sent,
                   outcome, replies, prev, pending>>

\* bot.send_message("Alert Bot Stopped ..."), the function returns
Shutdown ==
    /\ UNCHANGED <<mvars, svars, fvars, dvars>>
    /\ pc = "shutdown"
    /\ pc' = "done"
    /\ UNCHANGED <<running, clock, config, prices, avg_price, spread_pct,
                   now_thr, sent, wait_i, state, fetch_count, alerts_sent,
                   outcome, replies, prev, pending>>

\* signal_handler: SIGINT or SIGTERM arrives
Signal ==
    /\ UNCHANGED <<mvars, svars, fvars, dvars>>
    /\ pc \notin {"done", "crashed"}
    /\ running
    /\ running' = FALSE
    /\ UNCHANGED <<pc, clock, config, prices, avg_price, spread_pct,
                   now_thr, sent, wait_i, state, fetch_count, alerts_sent,
                   outcome, replies, prev, pending>>

Next ==
    \/ LoopHead
    \/ FetchCycle
    \/ NoDataSleep
    \/ CheckSpread
    \/ CheckAbove
    \/ CheckBelow
    \/ CheckChange
    \/ Status
    \/ EndCycle
    \/ WaitStep
    \/ SleepReturn
    \/ Shutdown
    \/ Signal

(***************************************************************************)
(* crypto_price_checker.py: the CSV row and run_continuous_monitoring.     *)
(***************************************************************************)
Blank == <<"">>

RECURSIVE Pow10(_)
Pow10(k) == IF k = 0 THEN 1 ELSE 10 * Pow10(k - 1)

\* f"{x:.8f}" and f"{x:.4f}" of a non-negative x: the decimal text, kept as
\* its integer part and its fraction digits
Fixed(x, digits) ==
    LET scale == Pow10(digits)
        whole == x[1] \div x[2]
        rem   == x[1] % x[2]
        frac  == (2 * rem * scale + x[2]) \div (2 * x[2])
    IN  IF frac = scale
        THEN [int |-> whole + 1, frac |-> 0, digits |-> digits]
        ELSE [int |-> whole, frac |-> frac, digits |-> digits]

\* append_to_csv: the row written for one cycle
append_to_csv_row(timestamp, prc) ==
    LET stats == append_to_csv_stats(prc) IN
    [timestamp  |-> timestamp,
     cells      |-> [p \in Providers |-> IF prc[p] # None THEN prc[p] ELSE Blank],
     average    |-> IF Truthy(stats.average) THEN Fixed(stats.average, 8) ELSE Blank,
     spread     |-> IF Truthy(stats.spread) THEN Fixed(stats.spread, 8) ELSE Blank,
     spread_pct |-> IF Truthy(stats.spread_pct) THEN Fixed(stats.spread_pct, 4) ELSE Blank]

MonInit ==
    /\ m_pc = "loop"
    /\ m_running = TRUE
    /\ m_clock = StartTime
    /\ m_i = 0
    /\ m_fetch_count = 0
    /\ m_timestamp = 0
    /\ m_prices = [p \in Providers |-> None]
    /\ csv = <<>>

\* while running: fetch_count += 1; timestamp = get_timestamp()
MonLoopHead ==
    /\ UNCHANGED <<avars, svars, fvars, dvars>>
    /\ m_pc = "loop"
    /\ IF m_running
       THEN /\ m_fetch_count < MaxFetch
            /\ m_fetch_count' = m_fetch_count + 1
            /\ m_timestamp' = m_clock
            /\ m_pc' = "fetch"
       ELSE /\ m_pc' = "finish"
            /\ UNCHANGED <<m_fetch_count, m_timestamp>>
    /\ UNCHANGED <<m_running, m_clock, m_i, m_prices, csv>>

\* prices = fetch_all_prices(...); if valid_prices: append_to_csv(...)
MonFetchCycle ==
    /\ UNCHANGED <<avars, svars, fvars, dvars>>
    /\ m_pc = "fetch"
    /\ \E got \in FetchResults :
         /\ m_prices' = got
         /\ csv' = IF ValidPrices(got) # <<>>
                   THEN Append(csv, append_to_csv_row(m_timestamp, got))
                   ELSE csv
    /\ m_pc' = "endcycle"
    /\ UNCHANGED <<m_running, m_clock, m_i, m_fetch_count, m_timestamp>>

\* "if running:" before the wait
MonEndCycle ==
    /\ UNCHANGED <<avars, svars, fvars, dvars>>
    /\ m_pc = "endcycle"
    /\ m_pc' = IF m_running THEN "wait" ELSE "loop"
    /\ m_i' = 0
    /\ UNCHANGED <<m_running, m_clock, m_fetch_count, m_timestamp, m_prices, csv>>

\* for _ in range(interval): if not running: break; time.sleep(1)
MonWaitStep ==
    /\ UNCHANGED <<avars, svars, fvars, dvars>>
    /\ m_pc = "wait"
    /\ IF m_i < Interval /\ m_running
       THEN m_pc' = "sleep"
       ELSE m_pc' = "loop"
    /\ UNCHANGED <<m_running, m_clock, m_i, m_fetch_count, m_timestamp, m_prices, csv>>

\* time.sleep(1) returns
MonSleepReturn ==
    /\ UNCHANGED <<avars, svars, fvars, dvars>>
    /\ m_pc = "sleep"
    /\ m_clock' = m_clock + 1
    /\ m_i' = m_i + 1
    /\ m_pc' = "wait"
    /\ UNCHANGED <<m_running, m_fetch_count, m_timestamp, m_prices, csv>>

\* print("Monitoring stopped. {fetch_count} data points saved ...")
MonFinish ==
    /\ UNCHANGED <<avars, svars, fvars, dvars>>
    /\ m_pc = "finish"
    /\ m_pc' = "done"
    /\ UNCHANGED <<m_running, m_clock, m_i, m_fetch_count, m_timestamp, m_prices, csv>>

\* signal_handler: SIGINT or SIGTERM arrives
MonSignal ==
    /\ UNCHANGED <<avars, svars, fvars, dvars>>
    /\ m_pc # "done"
    /\ m_running
    /\ m_running' = FALSE
    /\ UNCHANGED <<m_pc, m_clock, m_i, m_fetch_count, m_timestamp, m_prices, csv>>

MonNext ==
    \/ MonLoopHead
    \/ MonFetchCycle
    \/ MonEndCycle
    \/ MonWaitStep
    \/ MonSleepReturn
    \/ MonFinish
    \/ MonSignal

(***************************************************************************)
(* The statistics of one set of provider results, place by place.          *)
(***************************************************************************)
StatsInit ==
    /\ s_prices \in AllResults
    /\ s_place = "none"
    /\ s_stats = Stats(None, None, None)

StatsIdle ==
    /\ s_prices = [p \in Providers |-> None]
    /\ s_place = "none"
    /\ s_stats = Stats(None, None, None)

Compute(place, stats) ==
    /\ UNCHANGED <<avars, mvars, fvars, dvars>>
    /\ s_place = "none"
    /\ s_place' = place
    /\ s_stats' = stats
    /\ UNCHANGED s_prices

StatsAppendToCsv     == Compute("append_to_csv", append_to_csv_stats(s_prices))
StatsDisplayResults  == Compute("display_results", display_results_stats(s_prices))
StatsCheckSpread     == Compute("check_spread_alert", check_spread_alert_stats(s_prices))
StatsRunAlertMonitor == Compute("run_alert_monitor", run_alert_monitor_stats(s_prices))

StatsNext ==
    \/ StatsAppendToCsv
    \/ StatsDisplayResults
    \/ StatsCheckSpread
    \/ StatsRunAlertMonitor

(***************************************************************************)
(* The specifications.                                                     *)
(***************************************************************************)
\* no fetch round under way
FetchIdle ==
    /\ f_program = "checker"
    /\ f_symbol = "btc"
    /\ f_base = "usd"
    /\ f_providers = <<>>
    /\ f_resp = [fail |-> "none", body |-> [t |-> "null"]]
    /\ f_got = <<>>
    /\ f_results = <<>>
    /\ f_status = "returned"

\* no dashboard running, no CSV file
DashIdle ==
    /\ d_exists = FALSE
    /\ d_file = <<>>
    /\ d_now = 0
    /\ d_max_rows = 1
    /\ d_seconds = 1
    /\ d_rows = <<>>
    /\ d_window = <<>>
    /\ d_pc = "idle"

AlertIdle == AlertInit /\ config = AlertConfig(Rat(1, 2), None, None, 3, Num(2))

\* run_alert_monitor
Init == AlertInit /\ MonInit /\ StatsIdle /\ FetchIdle /\ DashIdle
Spec == Init /\ [][Next]_vars

\* run_alert_monitor with thresholds that overlap
InitOverlap ==
    AlertStart /\ config \in OverlapConfigs /\ MonInit /\ StatsIdle /\ FetchIdle
    /\ DashIdle
SpecOverlap == InitOverlap /\ [][Next]_vars

\* run_continuous_monitoring
InitMon == AlertIdle /\ MonInit /\ StatsIdle /\ FetchIdle /\ DashIdle
SpecMon == InitMon /\ [][MonNext]_vars

\* the cycle statistics of every set of provider results
InitStats == AlertIdle /\ MonInit /\ StatsInit /\ FetchIdle /\ DashIdle
SpecStats == InitStats /\ [][StatsNext]_vars

(***************************************************************************)
(* Properties of run_alert_monitor (Spec).  Within one cycle the clock     *)
(* stands still, so clock is the "now" of every rule of the cycle and      *)
(* prev holds every rule's last-fired timestamp as the cycle found it.     *)
(***************************************************************************)
AlertRules == {"spread", "above", "below", "change"}

\* the last-fired timestamp of a rule in an AlertState
Last(st, r) ==
    CASE r = "spread" -> st.last_spread_alert
      [] r = "above"  -> st.last_price_above_alert
      [] r = "below"  -> st.last_price_below_alert
      [] r = "change" -> st.last_price_change_alert
      [] r = "status" -> st.last_status_update

\* the rule has been evaluated in the current cycle and returned
Evaluated(r) == outcome[r] \notin {"none", "raise"}

\* the condition of each rule as the specification words it, on the cycle's
\* prices, average and rolling history
SpreadHolds ==
    LET valid == ValidPrices(prices) IN
    /\ Len(valid) >= 2
    /\ ~IsZero(SeqSum(valid))
    /\ RLe(RMul(config.spread_threshold, SeqSum(valid)),
           RMul(Num(100 * Len(valid)), RSub(SeqMax(valid), SeqMin(valid))))

AboveHolds == config.price_above # None /\ avg_price # None
              /\ RLt(config.price_above, avg_price)

BelowHolds == config.price_below # None /\ avg_price # None
              /\ RLt(avg_price, config.price_below)

ChangeHolds ==
    LET hist == state.price_history IN
    /\ Len(hist) >= 2
    /\ ~IsZero(hist[1][2])
    /\ RLe(RMul(config.price_change_pct, hist[1][2]),
           RMul(Num(100), RAbs(RSub(avg_price, hist[1][2]))))

Holds(r) ==
    CASE r = "spread" -> SpreadHolds
      [] r = "above"  -> AboveHolds
      [] r = "below"  -> BelowHolds
      [] r = "change" -> ChangeHolds
      [] r = "status" -> config.status_interval # None

\* C1: a rule that fired at T0 does not fire at any later evaluation time t
\* with t - T0 < cooldown_seconds: whenever an alert rule fires, at least
\* cooldown_seconds have passed since its previous firing.
C1_NoRefireInsideCooldown ==
    \A r \in AlertRules :
        outcome[r] = "fired" => clock - Last(prev, r) >= config.cooldown_seconds

\* a rule that fired before is evaluated one second short of its cooldown,
\* its condition holds and it is suppressed
C1_Witness ==
    \E r \in AlertRules :
        /\ outcome[r] = "cooldown"
        /\ Last(prev, r) > 0
        /\ clock - Last(prev, r) = config.cooldown_seconds - 1

\* C2: a rule that last fired at T0 and is evaluated at t with
\* t - T0 >= cooldown_seconds while its condition holds sends its message,
\* and if the sink accepts it the rule fires and records t.
C2_EligibleAtCooldown ==
    \A r \in AlertRules :
        (/\ Evaluated(r)
         /\ Last(prev, r) > 0
         /\ Holds(r)
         /\ clock - Last(prev, r) >= config.cooldown_seconds)
        => /\ replies[r] # "none"
           /\ replies[r] = "ok" => (outcome[r] = "fired" /\ Last(state, r) = clock)

\* a rule fires again exactly cooldown_seconds after its previous firing
C2_Witness ==
    \E r \in AlertRules :
        /\ outcome[r] = "fired"
        /\ Last(prev, r) > 0
        /\ clock - Last(prev, r) = config.cooldown_seconds

\* C3: when the sink refuses a rule's message the rule's last-fired timestamp
\* stays as it was, for the spread, price-above, price-below, price-change
\* and status rules; and a rule whose latest message was refused sends again
\* in the next cycle that evaluates it with its condition holding.
C3_FailureKeepsTimestamp ==
    /\ \A r \in Rules :
           outcome[r] = "failed"
           => (replies[r] = "refused" /\ Last(state, r) = Last(prev, r))
    /\ \A r \in pending :
           (Evaluated(r) /\ Holds(r)) => replies[r] # "none"

\* a rule whose message was refused in an earlier cycle is attempted again
\* and fires
C3_Witness ==
    \E r \in pending : outcome[r] = "fired" /\ Last(state, r) = clock

C10_Frame ==
    /\ \A r \in Rules :
           Last(state, r) = IF outcome[r] = "fired" THEN clock ELSE Last(prev, r)
    /\ \A cd \in 0..(StartTime + MaxFetch * Interval) :
           StatusDue(clock, state, [config EXCEPT !.cooldown_seconds = cd])
               = StatusDue(clock, state, config)
    /\ outcome["status"] # "none"
       => (replies["status"] # "none"
           <=> /\ config.status_interval # None
               /\ RLe(config.status_interval, Num(clock - prev.last_status_update)))

\* an alert rule and the status update fire in one cycle, the status update
\* sooner after the previous one than cooldown_seconds
C10_Witness ==
    /\ outcome["status"] = "fired"
    /\ prev.last_status_update > 0
    /\ clock - prev.last_status_update < config.cooldown_seconds
    /\ \E r \in AlertRules : outcome[r] = "fired"

\* the rule sends when its condition holds and its cooldown has elapsed, and
\* fires if the sink accepts
FiresWhenDue(r) ==
    (Holds(r) /\ clock - Last(prev, r) >= config.cooldown_seconds)
    => /\ replies[r] # "none"
       /\ replies[r] = "ok" => outcome[r] = "fired"

\* C8: in a cycle whose threshold rules have been evaluated, the price-above
\* rule fires when price_above is configured, the average is above it and
\* the rule's cooldown has elapsed, and the price-below rule likewise.
C8_ThresholdRulesFire ==
    (avg_price # None /\ pc \in {"change", "status", "endcycle"})
    => (FiresWhenDue("above") /\ FiresWhenDue("below"))

\* C9: in every cycle that has price data each of the four alert rules is
\* evaluated, and each one whose condition holds and whose cooldown has
\* elapsed fires in that cycle.
C9_AllRulesEveryCycle ==
    (avg_price # None /\ pc \in {"endcycle", "crashed"})
    => \A r \in AlertRules : outcome[r] # "none" /\ FiresWhenDue(r)

(***************************************************************************)
(* Properties of run_continuous_monitoring (SpecMon).                      *)
(***************************************************************************)
\* C6: run_continuous_monitoring records one entry per cycle, the cycles in
\* which every provider returned null included.
C6_OneEntryPerCycle ==
    m_pc = "endcycle" => Len(csv) = m_fetch_count

(***************************************************************************)
(* Properties of the cycle statistics (SpecStats).                         *)
(***************************************************************************)
\* C4: with at least two valid prices (of a non-zero sum) every place yields
\* average = mean, spread = max - min and spread_pct = spread / average * 100.
C4_StatsOfTwoOrMore ==
    LET valid == ValidPrices(s_prices)
        n     == Len(valid)
        total == SeqSum(valid)
        width == RSub(SeqMax(valid), SeqMin(valid))
    IN  (s_place # "none" /\ n >= 2 /\ ~IsZero(total))
        => /\ ~s_stats.raised
           /\ s_stats.average = Rat(total[1], n * total[2])
           /\ s_stats.spread = width
           /\ s_stats.spread_pct = Rat(100 * n * width[1] * total[2], width[2] * total[1])

\* C5: with exactly one valid price the average is that price (where the
\* place computes one) and spread and spread_pct are null, in append_to_csv,
\* in display_results and in what run_alert_monitor hands to
\* send_status_update.
C5_StatsOfOne ==
    LET valid == ValidPrices(s_prices) IN
    (/\ Len(valid) = 1
     /\ s_place \in {"append_to_csv", "display_results", "run_alert_monitor"})
    => /\ s_place # "display_results" => s_stats.average = valid[1]
       /\ s_stats.spread = None
       /\ s_stats.spread_pct = None

(***************************************************************************)
(* Properties of the price-change rule and the status rule (Spec).         *)
(***************************************************************************)
\* C11: once check_price_change_alert has been evaluated at time now, no
\* sample of state.price_history is strictly older than
\* now - price_change_window, the baseline (the first sample) included.
C11_WindowExcludesOldSamples ==
    outcome["change"] # "none" =>
        /\ state.price_history # <<>>
        /\ \A i \in 1..Len(state.price_history) :
               state.price_history[i][1] >= clock - config.price_change_window

\* the evaluation found a sample strictly older than now - window in the
\* history and left at least two samples
C11_Witness ==
    /\ outcome["change"] # "none"
    /\ Len(state.price_history) >= 2
    /\ \E i \in 1..Len(prev.price_history) :
           prev.price_history[i][1] < clock - config.price_change_window

\* the samples the evaluation at time clock retains: those of the history
\* the cycle found, and the cycle's own, that are newer than clock - window
Retained ==
    LET all == prev.price_history \o <<(<<clock, avg_price>>)>>
        idx == {i \in 1..Len(all) : all[i][1] > clock - config.price_change_window}
    IN  [n \in 1..Cardinality(idx) |->
            all[CHOOSE i \in idx : Cardinality({j \in idx : j <= i}) = n]]

\* |(current - oldest) / oldest * 100| >= price_change_pct, on the retained
\* samples
ChangeCondition ==
    /\ Len(Retained) >= 2
    /\ ~IsZero(Retained[1][2])
    /\ \/ RLe(RMul(config.price_change_pct, Retained[1][2]),
              RMul(Num(100), RSub(avg_price, Retained[1][2])))
       \/ RLe(RMul(config.price_change_pct, Retained[1][2]),
              RMul(Num(100), RSub(Retained[1][2], avg_price)))

\* C12: check_price_change_alert fires exactly when at least two samples
\* are retained, the change from the first retained sample to the current
\* average is at least price_change_pct in absolute value, the cooldown has
\* elapsed and the sink accepts; the baseline is the first sample retained
\* at this evaluation.
C12_ChangeRule ==
    LET due == clock - prev.last_price_change_alert >= config.cooldown_seconds IN
    outcome["change"] # "none" =>
        /\ state.price_history = Retained
        /\ outcome["change"] = "fired"
           <=> (ChangeCondition /\ due /\ replies["change"] = "ok")
        /\ (ChangeCondition /\ due) <=> replies["change"] # "none"
        /\ outcome["change"] = "fired" => state.last_price_change_alert = clock

\* the rule fires on a fall of the price, against a baseline that is not the
\* first sample of the history the cycle found: that one has aged out
C12_Witness ==
    /\ outcome["change"] = "fired"
    /\ prev.price_history # <<>>
    /\ prev.price_history[1][1] < state.price_history[1][1]
    /\ RLt(avg_price, state.price_history[1][2])

\* C13: with status_interval None or zero the status rule is disabled:
\* send_status_update sends nothing and last_status_update stays as it was
\* in every cycle of the session.
C13_StatusDisabled ==
    (config.status_interval = None \/ config.status_interval = Num(0))
    => (replies["status"] = "none" /\ state.last_status_update = 0)

\* C14: with status_interval configured, every polling cycle at which
\* now - last_status_update >= status_interval sends a status message,
\* however many providers returned a price in that cycle.
C14_StatusEveryDueCycle ==
    (/\ pc \in {"nodata", "endcycle"}
     /\ config.status_interval # None
     /\ RLe(config.status_interval, Num(clock - prev.last_status_update)))
    => replies["status"] # "none"

\* C15: run_alert_monitor leaves its polling loop only after the stop flag
\* has been set; no cycle's data ends the loop.
C15_LoopEndsOnlyOnStop ==
    pc \in {"shutdown", "done", "crashed"} => ~running

\* C16: every wait of run_alert_monitor polls the stop flag in increments of
\* at most one second: no step of the loop lets more than one second pass.
C16_WaitPollsEverySecond == [][clock' - clock <= 1]_vars

\* C17: once the stop flag is set run_alert_monitor does not end without
\* its shutdown announcement: it does not end in an exception.
C17_StopEndsInShutdown == ~running => pc # "crashed"

(***************************************************************************)
(* The provider adapters.  Strings: the symbols and quote currencies of    *)
(* the model, with str.lower() and str.upper() on them.                    *)
(***************************************************************************)
Symbols == {"btc", "BTC", "ltc", "pepe", "dogecoin"}
Bases   == {"usd", "USD", "eur", "usdc", "jpy"}

\* str.lower()
Lower(s) ==
    CASE s = "BTC" -> "btc"
      [] s = "USD" -> "usd"
      [] OTHER     -> s

\* str.upper()
Upper(s) ==
    CASE s \in {"btc", "BTC"} -> "BTC"
      [] s = "ltc"      -> "LTC"
      [] s = "pepe"     -> "PEPE"
      [] s = "dogecoin" -> "DOGECOIN"
      [] s \in {"usd", "USD"} -> "USD"
      [] s = "eur"      -> "EUR"
      [] s = "usdc"     -> "USDC"
      [] s = "jpy"      -> "JPY"
      [] OTHER          -> s

\* dict.get(key, default)
DictGet(d, key, default) == IF key \in DOMAIN d THEN d[key] ELSE default

\* crypto_price_checker.py
COINGECKO_SYMBOL_MAP ==
    [btc |-> "bitcoin", eth |-> "ethereum", sol |-> "solana", ada |-> "cardano",
     xrp |-> "ripple", doge |-> "dogecoin", dot |-> "polkadot",
     matic |-> "polygon", link |-> "chainlink", avax |-> "avalanche-2",
     ltc |-> "litecoin", uni |-> "uniswap", atom |-> "cosmos", xlm |-> "stellar",
     algo |-> "algorand", near |-> "near", ftm |-> "fantom", aave |-> "aave",
     bnb |-> "binancecoin", shib |-> "shiba-inu"]

BINANCE_QUOTE_MAP ==
    [usd |-> "USDT", eur |-> "EUR", gbp |-> "GBP", usdt |-> "USDT",
     usdc |-> "USDC", busd |-> "BUSD"]

COINBASE_QUOTE_MAP ==
    [usd |-> "USD", eur |-> "EUR", gbp |-> "GBP", usdt |-> "USDT", usdc |-> "USDC"]

\* telegram_alerts.py
COINGECKO_SYMBOL_MAP_alerts ==
    [btc |-> "bitcoin", eth |-> "ethereum", sol |-> "solana", ada |-> "cardano",
     xrp |-> "ripple", doge |-> "dogecoin", dot |-> "polkadot",
     matic |-> "polygon", link |-> "chainlink", avax |-> "avalanche-2",
     ltc |-> "litecoin", uni |-> "uniswap", bnb |-> "binancecoin",
     shib |-> "shiba-inu"]

BINANCE_QUOTE_MAP_alerts  == [usd |-> "USDT", eur |-> "EUR", gbp |-> "GBP"]
COINBASE_QUOTE_MAP_alerts == [usd |-> "USD", eur |-> "EUR", gbp |-> "GBP"]

\* crypto_price_cli.py gecko_id_for_symbol: <<id>>, or None when the symbol is
\* unknown
gecko_id_table ==
    [btc |-> "bitcoin", xbt |-> "bitcoin", eth |-> "ethereum", ltc |-> "litecoin",
     doge |-> "dogecoin", dogecoin |-> "dogecoin", ada |-> "cardano",
     sol |-> "solana", xrp |-> "ripple", dot |-> "polkadot", trx |-> "tron",
     uni |-> "uniswap"]

gecko_id_for_symbol(symbol) ==
    IF symbol \in DOMAIN gecko_id_table THEN <<gecko_id_table[symbol]>>
    ELSE IF \E k \in DOMAIN gecko_id_table : gecko_id_table[k] = symbol
    THEN <<symbol>>
    ELSE None

\* crypto_price_cli.py binance_pair; None when the base is not supported
binance_pair(symbol, base) ==
    LET b == IF Upper(base) = "USD" THEN "USDT" ELSE Upper(base) IN
    IF b \in {"USDT", "BUSD", "EUR", "GBP", "TRY"} THEN <<Upper(symbol), b>> ELSE None

\* crypto_price_cli.py coinbase_pair
coinbase_pair(symbol, base) == <<Upper(symbol), "-", Upper(base)>>

(***************************************************************************)
(* JSON values as Python holds them after json.loads, and the Python       *)
(* operations the adapters apply to them.  An operation that Python does   *)
(* not define on a value raises; it is given here as the name of the       *)
(* exception ("none" when it does not raise).                              *)
(***************************************************************************)
JNull        == [t |-> "null"]
JNum(r)      == [t |-> "num", v |-> r]
JStr(text)   == [t |-> "str", s |-> text]
JList(items) == [t |-> "list", items |-> items]
JObj(fields) == [t |-> "obj", fields |-> fields]

\* bool(x)
PyTruthy(j) ==
    CASE j.t = "null" -> FALSE
      [] j.t = "num"  -> ~IsZero(j.v)
      [] j.t = "str"  -> j.s # ""
      [] j.t = "list" -> j.items # <<>>
      [] j.t = "obj"  -> DOMAIN j.fields # {}

\* key in x: the exception, and the value when there is none
InError(j) == IF j.t \in {"str", "list", "obj"} THEN "none" ELSE "TypeError"
In(key, j) ==
    CASE j.t = "obj"  -> key \in DOMAIN j.fields
      [] j.t = "list" -> \E i \in 1..Len(j.items) :
                             j.items[i].t = "str" /\ j.items[i].s = key
      [] j.t = "str"  -> j.s = key
      [] OTHER        -> FALSE

\* x[key] for a string key
IndexError(j, key) ==
    IF j.t = "obj" THEN (IF key \in DOMAIN j.fields THEN "none" ELSE "KeyError")
    ELSE "TypeError"
Index(j, key) == j.fields[key]

\* x.get(key, default)
GetError(j) == IF j.t = "obj" THEN "none" ELSE "AttributeError"
Get(j, key, default) == IF key \in DOMAIN j.fields THEN j.fields[key] ELSE default

\* float(x)
FloatError(j) ==
    CASE j.t = "num" -> "none"
      [] j.t = "str" -> IF j.s = "100200" THEN "none" ELSE "ValueError"
      [] OTHER       -> "TypeError"
Float(j) == IF j.t = "num" THEN j.v ELSE Num(100200)

\* a JSON value handed on as it is: None, a number <<n, d>>, or <<j>> for a
\* value j that is neither
AsPython(j) ==
    IF j.t = "null" THEN None ELSE IF j.t = "num" THEN j.v ELSE <<j>>

\* what the network call of an adapter ends in: a failure, or a body that
\* parses to a JSON value
Failures == {"network failure", "timeout", "HTTP 429", "HTTP 404", "HTTP 500",
             "malformed JSON"}
Failed(kind) == [fail |-> kind, body |-> JNull]
Body(j)      == [fail |-> "none", body |-> j]

\* what an adapter gives its caller: a price and the identifier it asked
\* the provider for (None when it asked nothing), or an exception
Returns(price, second, asked) ==
    [price |-> price, second |-> second, raised |-> "none", asked |-> asked]
Raises(exc, asked) ==
    [price |-> None, second |-> "", raised |-> exc, asked |-> asked]

\* make_request of crypto_price_checker.py and telegram_alerts.py: the
\* parsed body, None on every failure
make_request(resp) == IF resp.fail # "none" THEN JNull ELSE resp.body

(***************************************************************************)
(* The adapters of crypto_price_checker.py, and those of telegram_alerts.py *)
(* (suffix _alerts), on the response resp of their network call.           *)
(***************************************************************************)
\* "if data and coin_id in data and currency in data[coin_id]:
\*      return data[coin_id][currency], provider"
gecko_price(data, coin_id, currency, asked) ==
    IF ~PyTruthy(data) THEN Returns(None, "CoinGecko", asked)
    ELSE IF InError(data) # "none" THEN Raises(InError(data), asked)
    ELSE IF ~In(coin_id, data) THEN Returns(None, "CoinGecko", asked)
    ELSE IF IndexError(data, coin_id) # "none"
    THEN Raises(IndexError(data, coin_id), asked)
    ELSE LET inner == Index(data, coin_id) IN
         IF InError(inner) # "none" THEN Raises(InError(inner), asked)
         ELSE IF ~In(currency, inner) THEN Returns(None, "CoinGecko", asked)
         ELSE IF IndexError(inner, currency) # "none"
         THEN Raises(IndexError(inner, currency), asked)
         ELSE Returns(AsPython(Index(inner, currency)), "CoinGecko", asked)

fetch_coingecko(symbol, base_currency, resp) ==
    LET coin_id  == DictGet(COINGECKO_SYMBOL_MAP, Lower(symbol), Lower(symbol))
        currency == Lower(base_currency)
    IN  gecko_price(make_request(resp), coin_id, currency, <<coin_id, currency>>)

fetch_coingecko_alerts(symbol, base_currency, resp) ==
    LET coin_id == DictGet(COINGECKO_SYMBOL_MAP_alerts, Lower(symbol), Lower(symbol))
    IN  gecko_price(make_request(resp), coin_id, base_currency,
                    <<coin_id, base_currency>>)

\* "try: return float(x), provider / except ValueError: return None, provider"
float_or_none(x, provider, asked) ==
    IF FloatError(x) = "none" THEN Returns(Float(x), provider, asked)
    ELSE IF FloatError(x) = "ValueError" THEN Returns(None, provider, asked)
    ELSE Raises(FloatError(x), asked)

\* "if data and 'price' in data: ... float(data['price'])"
binance_price(data, asked) ==
    IF ~PyTruthy(data) THEN Returns(None, "Binance", asked)
    ELSE IF InError(data) # "none" THEN Raises(InError(data), asked)
    ELSE IF ~In("price", data) THEN Returns(None, "Binance", asked)
    ELSE IF IndexError(data, "price") # "none"
    THEN Raises(IndexError(data, "price"), asked)
    ELSE float_or_none(Index(data, "price"), "Binance", asked)

fetch_binance(symbol, base_currency, resp) ==
    LET quote == DictGet(BINANCE_QUOTE_MAP, Lower(base_currency), "USDT")
    IN  binance_price(make_request(resp), <<Upper(symbol), quote>>)

fetch_binance_alerts(symbol, base_currency, resp) ==
    LET quote == DictGet(BINANCE_QUOTE_MAP_alerts, Lower(base_currency), "USDT")
    IN  binance_price(make_request(resp), <<Upper(symbol), quote>>)

\* "if data and 'data' in data and 'amount' in data['data']: ...
\*      float(data['data']['amount'])"
coinbase_price(data, asked) ==
    IF ~PyTruthy(data) THEN Returns(None, "Coinbase", asked)
    ELSE IF InError(data) # "none" THEN Raises(InError(data), asked)
    ELSE IF ~In("data", data) THEN Returns(None, "Coinbase", asked)
    ELSE IF IndexError(data, "data") # "none"
    THEN Raises(IndexError(data, "data"), asked)
    ELSE LET inner == Index(data, "data") IN
         IF InError(inner) # "none" THEN Raises(InError(inner), asked)
         ELSE IF ~In("amount", inner) THEN Returns(None, "Coinbase", asked)
         ELSE IF IndexError(inner, "amount") # "none"
         THEN Raises(IndexError(inner, "amount"), asked)
         ELSE float_or_none(Index(inner, "amount"), "Coinbase", asked)

fetch_coinbase(symbol, base_currency, resp) ==
    LET quote == DictGet(COINBASE_QUOTE_MAP, Lower(base_currency), "USD")
    IN  coinbase_price(make_request(resp), <<Upper(symbol), "-", quote>>)

fetch_coinbase_alerts(symbol, base_currency, resp) ==
    LET quote == DictGet(COINBASE_QUOTE_MAP_alerts, Lower(base_currency), "USD")
    IN  coinbase_price(make_request(resp), <<Upper(symbol), "-", quote>>)

(***************************************************************************)
(* The adapters of crypto_price_cli.py (suffix _cli): everything after the *)
(* pair is built runs inside "try: ... except Exception", and              *)
(* http_get_json raises on every failure of the call.                      *)
(***************************************************************************)
\* "v = data.get(a, {}).get(b)" or "p = data.get(b)", then
\* "if v is None: return None, reason" and "return float(v), None"
cli_price(resp, outer, key, name, asked) ==
    LET data == resp.body IN
    IF resp.fail # "none" THEN Returns(None, name \o " error", asked)
    ELSE IF GetError(data) # "none" THEN Returns(None, name \o " error", asked)
    ELSE LET inner == IF outer = "" THEN data ELSE Get(data, outer, JObj(<<>>)) IN
         IF GetError(inner) # "none" THEN Returns(None, name \o " error", asked)
         ELSE LET v == Get(inner, key, JNull) IN
              IF v.t = "null" THEN Returns(None, name \o " missing price", asked)
              ELSE IF FloatError(v) # "none"
              THEN Returns(None, name \o " error", asked)
              ELSE Returns(Float(v), "", asked)

fetch_coingecko_cli(symbol, base, resp) ==
    LET sid == gecko_id_for_symbol(symbol) IN
    IF sid = None THEN Returns(None, "CoinGecko does not recognize symbol", None)
    ELSE cli_price(resp, sid[1], Lower(base), "CoinGecko", <<sid[1], Lower(base)>>)

fetch_binance_cli(symbol, base, resp) ==
    LET pair == binance_pair(symbol, base) IN
    IF pair = None THEN Returns(None, "Binance unsupported base", None)
    ELSE cli_price(resp, "", "price", "Binance", pair)

fetch_coinbase_cli(symbol, base, resp) ==
    cli_price(resp, "data", "amount", "Coinbase", coinbase_pair(symbol, base))

\* x[0]: the exception, and the value when there is none
FirstError(j) ==
    CASE j.t = "list" -> IF j.items = <<>> THEN "IndexError" ELSE "none"
      [] j.t = "str"  -> IF j.s = "" THEN "IndexError" ELSE "none"
      [] j.t = "obj"  -> "KeyError"
      [] OTHER        -> "TypeError"
First(j) ==
    IF j.t = "list" THEN j.items[1]
    ELSE JStr(IF j.s = "100200" THEN "1" ELSE "a")

\* float(value['c'][0]) of fetch_kraken: the exception, and the value
KrakenFloatError(x) ==
    IF x.t = "str" /\ x.s = "1" THEN "none" ELSE FloatError(x)
KrakenFloat(x) == IF x.t = "str" /\ x.s = "1" THEN Num(1) ELSE Float(x)

\* crypto_price_checker.py fetch_kraken, "for key, value in
\* data['result'].items()" on the pairs not yet visited
RECURSIVE kraken_scan(_, _, _)
kraken_scan(result, keys, asked) ==
    IF keys = {} THEN Returns(None, "Kraken", asked)
    ELSE LET key   == CHOOSE k \in keys : TRUE
             value == result.fields[key]
             rest  == kraken_scan(result, keys \ {key}, asked)
         IN  IF InError(value) # "none" THEN Raises(InError(value), asked)
             ELSE IF ~In("c", value) THEN rest
             ELSE IF IndexError(value, "c") # "none"
             THEN Raises(IndexError(value, "c"), asked)
             ELSE LET c == Index(value, "c") IN
                  IF FirstError(c) = "IndexError" THEN rest
                  ELSE IF FirstError(c) # "none" THEN Raises(FirstError(c), asked)
                  ELSE IF KrakenFloatError(First(c)) = "none"
                  THEN Returns(KrakenFloat(First(c)), "Kraken", asked)
                  ELSE IF KrakenFloatError(First(c)) = "ValueError" THEN rest
                  ELSE Raises(KrakenFloatError(First(c)), asked)

fetch_kraken(symbol, base_currency, resp) ==
    LET kraken_symbols == [btc |-> "XBT", doge |-> "XDG"]
        kraken_symbol  == DictGet(kraken_symbols, Lower(symbol), Upper(symbol))
        quote == IF Lower(base_currency) \in {"usd", "usdt"} THEN "USD"
                 ELSE Upper(base_currency)
        asked == <<kraken_symbol, quote>>
        data  == make_request(resp)
    IN  IF ~PyTruthy(data) THEN Returns(None, "Kraken", asked)
        ELSE IF InError(data) # "none" THEN Raises(InError(data), asked)
        ELSE IF ~In("result", data) THEN Returns(None, "Kraken", asked)
        ELSE IF IndexError(data, "result") # "none"
        THEN Raises(IndexError(data, "result"), asked)
        ELSE LET result == Index(data, "result") IN
             IF ~PyTruthy(result) THEN Returns(None, "Kraken", asked)
             ELSE IF result.t # "obj" THEN Raises("AttributeError", asked)
             ELSE kraken_scan(result, DOMAIN result.fields, asked)

(***************************************************************************)
(* The responses the model lets a provider give.                           *)
(***************************************************************************)
\* the values a price field holds: a decimal string, a number, null, a
\* string that is no number, a list
PriceFields == {JStr("100200"), JNum(Num(99800)), JNull, JStr("abc"),
                JList(<<JStr("abc")>>)}

\* bodies of an unexpected shape, or without the expected field
OddBodies == {JNull, JNum(Num(5)), JStr("abc"), JList(<<JStr("abc")>>),
              JObj(<<>>), JObj([error |-> JStr("abc")])}

GeckoBodies(coin_id, currency) ==
    OddBodies \cup {JObj(coin_id :> JNum(Num(5))), JObj(coin_id :> JObj(<<>>))}
              \cup {JObj(coin_id :> JObj(currency :> x)) : x \in PriceFields}

BinanceBodies == OddBodies \cup {JObj([price |-> x]) : x \in PriceFields}

CoinbaseBodies ==
    OddBodies \cup {JObj([data |-> JNum(Num(5))]), JObj([data |-> JObj(<<>>)])}
              \cup {JObj([data |-> JObj([amount |-> x])]) : x \in PriceFields}

KrakenBodies(pair) ==
    OddBodies \cup {JObj([result |-> JList(<<JStr("abc")>>)]),
                    JObj([result |-> JObj(pair :> JNum(Num(5)))]),
                    JObj([result |-> JObj(pair :> JObj(<<>>))])}
              \cup {JObj([result |-> JObj(pair :> JObj([c |-> JList(<<x>>)]))]) :
                        x \in PriceFields}
              \cup {JObj([result |-> JObj(pair :> JObj([c |-> x]))]) :
                        x \in {JList(<<>>), JStr("100200"), JNull}}

Responses(bodies) == {Failed(k) : k \in Failures} \cup {Body(j) : j \in bodies}

\* the response carries a price the adapter is to hand on: its price field
\* is a number or a decimal string
GoodField(x) == x.t = "num" \/ (x.t = "str" /\ x.s = "100200")

(***************************************************************************)
(* One fetch round: fetch_all_prices of crypto_price_checker.py and of     *)
(* telegram_alerts.py, collect_prices of crypto_price_cli.py.              *)
(***************************************************************************)
\* the provider lists a round is started with: the default three, and for
\* crypto_price_checker.py a --providers choice
ProviderLists(program) ==
    IF program = "checker"
    THEN {<<"coingecko", "binance", "coinbase">>, <<"kraken", "binance">>}
    ELSE {<<"coingecko", "binance", "coinbase">>}

\* the symbol and base the adapters of the program are called with:
\* crypto_price_cli.py main passes normalize_symbol and normalize_base
CallSymbol == IF f_program = "cli" THEN Lower(f_symbol) ELSE f_symbol
CallBase   == IF f_program = "cli" THEN Lower(f_base) ELSE f_base

\* the adapter of a provider on a response
Adapter(provider, resp) ==
    CASE f_program = "checker" /\ provider = "coingecko" ->
             fetch_coingecko(CallSymbol, CallBase, resp)
      [] f_program = "checker" /\ provider = "binance" ->
             fetch_binance(CallSymbol, CallBase, resp)
      [] f_program = "checker" /\ provider = "coinbase" ->
             fetch_coinbase(CallSymbol, CallBase, resp)
      [] f_program = "checker" /\ provider = "kraken" ->
             fetch_kraken(CallSymbol, CallBase, resp)
      [] f_program = "alerts" /\ provider = "coingecko" ->
             fetch_coingecko_alerts(CallSymbol, CallBase, resp)
      [] f_program = "alerts" /\ provider = "binance" ->
             fetch_binance_alerts(CallSymbol, CallBase, resp)
      [] f_program = "alerts" /\ provider = "coinbase" ->
             fetch_coinbase_alerts(CallSymbol, CallBase, resp)
      [] f_program = "cli" /\ provider = "coingecko" ->
             fetch_coingecko_cli(CallSymbol, CallBase, resp)
      [] f_program = "cli" /\ provider = "binance" ->
             fetch_binance_cli(CallSymbol, CallBase, resp)
      [] f_program = "cli" /\ provider = "coinbase" ->
             fetch_coinbase_cli(CallSymbol, CallBase, resp)

\* the responses the provider can give to what the adapter asks it
ResponsesTo(provider) ==
    LET asked == Adapter(provider, Failed("timeout")).asked IN
    CASE provider = "coingecko" ->
             IF asked = None THEN {Failed("timeout")}
             ELSE Responses(GeckoBodies(asked[1], asked[2]))
      [] provider = "binance"  -> Responses(BinanceBodies)
      [] provider = "coinbase" -> Responses(CoinbaseBodies)
      [] provider = "kraken"   -> Responses(KrakenBodies(asked[1] \o asked[2]))

FetchInit ==
    /\ f_program \in {"checker", "alerts", "cli"}
    /\ f_symbol \in Symbols
    /\ f_base \in Bases
    /\ f_providers \in ProviderLists(f_program)
    /\ f_resp = Body(JNull)
    /\ f_got = <<>>
    /\ f_results = <<>>
    /\ f_status = "fetching"

\* one pass of the loop over the providers: the adapter is called and its
\* price is entered in the result, or its exception leaves the round
FetchProvider ==
    /\ UNCHANGED <<avars, mvars, svars, dvars>>
    /\ f_status = "fetching"
    /\ Len(f_results) < Len(f_providers)
    /\ LET provider == f_providers[Len(f_results) + 1] IN
       \E resp \in ResponsesTo(provider) :
           LET got == Adapter(provider, resp) IN
           /\ f_resp' = resp
           /\ f_got' = <<got>>
           /\ IF got.raised # "none"
              THEN /\ f_status' = "raised"
                   /\ UNCHANGED f_results
              ELSE /\ f_results' = Append(f_results, [provider |-> provider,
                                                      price |-> got.price])
                   /\ UNCHANGED f_status
    /\ UNCHANGED <<f_program, f_symbol, f_base, f_providers>>

\* "return results" / "return out"
FetchReturn ==
    /\ UNCHANGED <<avars, mvars, svars, dvars>>
    /\ f_status = "fetching"
    /\ Len(f_results) = Len(f_providers)
    /\ f_status' = "returned"
    /\ UNCHANGED <<f_program, f_symbol, f_base, f_providers, f_resp, f_got,
                   f_results>>

FetchNext ==
    \/ FetchProvider
    \/ FetchReturn

\* one fetch round of each program
InitFetch == AlertIdle /\ MonInit /\ StatsIdle /\ FetchInit /\ DashIdle
SpecFetch == InitFetch /\ [][FetchNext]_vars

(***************************************************************************)
(* Properties of a fetch round (SpecFetch).                                *)
(***************************************************************************)
\* the provider of the latest adapter call, and what the call gave
Called == f_got # <<>>
LastProvider ==
    f_providers[IF f_status = "raised" THEN Len(f_results) + 1 ELSE Len(f_results)]
Got == f_got[1]

\* the responses that carry a price for what the adapter asked
GoodResponses(provider, asked) ==
    CASE provider = "coingecko" ->
             IF asked = None THEN {}
             ELSE {Body(JObj(asked[1] :> JObj(asked[2] :> x))) :
                       x \in {y \in PriceFields : GoodField(y)}}
      [] provider = "binance" ->
             {Body(JObj([price |-> x])) : x \in {y \in PriceFields : GoodField(y)}}
      [] provider = "coinbase" ->
             {Body(JObj([data |-> JObj([amount |-> x])])) :
                  x \in {y \in PriceFields : GoodField(y)}}
      [] provider = "kraken" ->
             {Body(JObj([result |->
                  JObj((asked[1] \o asked[2]) :> JObj([c |-> JList(<<x>>)]))])) :
                  x \in {y \in PriceFields : GoodField(y)}}

\* C18: whatever the network call ends in other than a price (a failure, a
\* body of an unexpected shape, a missing, null or non-numeric price field)
\* the adapter returns a null price and raises nothing.
C18_AdaptersNeverRaise ==
    (Called /\ f_resp \notin GoodResponses(LastProvider, Got.asked))
    => (Got.raised = "none" /\ Got.price = None)

\* C19: a fetch round ends with one entry for every queried provider, each
\* entry null or a price; a provider whose call failed contributes null and
\* one that succeeded contributes its price.
C19_OneEntryPerProvider ==
    /\ f_status # "raised"
    /\ f_status = "returned"
       => /\ Len(f_results) = Len(f_providers)
          /\ \A i \in 1..Len(f_results) :
                 /\ f_results[i].provider = f_providers[i]
                 /\ Len(f_results[i].price) \in {0, 2}
    /\ (Called /\ f_resp.fail # "none")
       => f_results[Len(f_results)].price = None

\* C20: for a symbol that is not in the program's CoinGecko symbol table the
\* CoinGecko adapter returns a null price and asks the provider nothing.
C20_UnknownSymbolUnsupported ==
    LET table == CASE f_program = "checker" -> DOMAIN COINGECKO_SYMBOL_MAP
                   [] f_program = "alerts"  -> DOMAIN COINGECKO_SYMBOL_MAP_alerts
                   [] f_program = "cli"     ->
                          DOMAIN gecko_id_table
                          \cup {gecko_id_table[k] : k \in DOMAIN gecko_id_table}
    IN  (Called /\ LastProvider = "coingecko" /\ Lower(f_symbol) \notin table)
        => (Got.raised = "none" /\ Got.price = None /\ Got.asked = None)

\* C21: the Binance adapter asks for the uppercased symbol followed by the
\* suffix of the quote table ("usd" gives "USDT"); for a quote currency that
\* is not in the program's table it returns a null price and asks the
\* provider nothing.
C21_BinanceUnsupportedQuote ==
    LET table == CASE f_program = "checker" -> DOMAIN BINANCE_QUOTE_MAP
                   [] f_program = "alerts"  -> DOMAIN BINANCE_QUOTE_MAP_alerts
                   [] f_program = "cli"     ->
                          {"usd", "usdt", "busd", "eur", "gbp", "try"}
    IN  (Called /\ LastProvider = "binance")
        => IF Lower(f_base) \in table
           THEN /\ Len(Got.asked) = 2
                /\ Got.asked[1] = Upper(f_symbol)
                /\ Lower(f_base) = "usd" => Got.asked[2] = "USDT"
           ELSE Got.raised = "none" /\ Got.price = None /\ Got.asked = None

\* C22: for every symbol and quote currency the Coinbase adapter asks for
\* upper(symbol) "-" upper(quote currency): no quote currency is rejected
\* and none is replaced by another.
C22_CoinbasePair ==
    (Called /\ LastProvider = "coinbase")
    => Got.asked = <<Upper(f_symbol), "-", Upper(f_base)>>

(***************************************************************************)
(* The zero-average guard (SpecStats).                                     *)
(***************************************************************************)
\* C24: with at least two valid prices whose average is 0, every place that
\* computes spread_pct (display_results, append_to_csv, check_spread_alert,
\* run_alert_monitor) takes it as 0 and raises no ZeroDivisionError.
C24_ZeroAverageGuard ==
    LET valid == ValidPrices(s_prices) IN
    (s_place # "none" /\ Len(valid) >= 2 /\ IsZero(SeqSum(valid)))
    => (~s_stats.raised /\ s_stats.spread_pct = Num(0))

(***************************************************************************)
(* The cells of a CSV row (SpecMon).                                       *)
(***************************************************************************)
\* a cell of a row is the empty text
IsBlank(cell) == Cardinality(DOMAIN cell) = 1

\* C27: in the row append_to_csv writes, a provider cell is blank exactly
\* when the provider's price is null, the average cell exactly when there is
\* no valid price, and the spread and spread_pct cells exactly when there
\* are fewer than two valid prices; an available statistic equal to 0 is
\* written as a number.
C27_BlankExactlyWhenUnavailable ==
    LET valid == ValidPrices(m_prices)
        row   == csv[Len(csv)]
    IN  (m_pc = "endcycle" /\ valid # <<>>)
        => /\ \A p \in Providers : IsBlank(row.cells[p]) <=> (m_prices[p] = None)
           /\ IsBlank(row.average) <=> (valid = <<>>)
           /\ IsBlank(row.spread) <=> (Len(valid) < 2)
           /\ IsBlank(row.spread_pct) <=> (Len(valid) < 2)

(***************************************************************************)
(* The alert counter of run_alert_monitor (SpecOverlap).                   *)
(***************************************************************************)
\* the notifications of the rules in R that the sink has accepted
Accepted(rs, R) == Cardinality({r \in R : rs[r] = "ok"})

\* C28: alerts_sent grows by exactly the number of alert notifications
\* (spread, price-above, price-below, price-change) the sink accepted, at
\* each of the three rule calls of a cycle, and changes nowhere else.
C28_AlertsSentCountsDeliveries ==
    [][alerts_sent' - alerts_sent =
           IF pc = "spread" /\ pc' # pc THEN Accepted(replies', {"spread"})
           ELSE IF pc = "below" /\ pc' # pc
           THEN Accepted(replies', {"above", "below"})
           ELSE IF pc = "change" /\ pc' # pc THEN Accepted(replies', {"change"})
           ELSE 0]_vars

(***************************************************************************)
(* The count run_continuous_monitoring reports (SpecMon).                  *)
(***************************************************************************)
\* C29: when run_continuous_monitoring has stopped, the number of data
\* points it reports as saved (fetch_count) is the number of rows it
\* appended to the CSV file in the session.
C29_ReportedCountIsRowsSaved ==
    m_pc \in {"finish", "done"} => m_fetch_count = Len(csv)

(***************************************************************************)
(* The price history of the price-change rule (Spec).                      *)
(***************************************************************************)
\* C30: after check_price_change_alert has been called at time now,
\* whatever path it took, price_history is the samples of the history it
\* found that are newer than now - price_change_window, followed by
\* (now, avg_price), in non-decreasing order of time; until the call, and so
\* through a cycle without a valid price, price_history is as the last cycle
\* left it.
C30_HistoryAfterEveryCall ==
    LET cutoff == clock - config.price_change_window
        Newer(e) == e[1] > cutoff
        hist == state.price_history
    IN  /\ outcome["change"] # "none"
           => /\ config.price_change_window > 0
              /\ hist = SelectSeq(prev.price_history, Newer) \o <<(<<clock, avg_price>>)>>
              /\ \A i \in 1..(Len(hist) - 1) : hist[i][1] <= hist[i + 1][1]
        /\ outcome["change"] = "none" => hist = prev.price_history
        /\ pc = "nodata" => (ValidPrices(prices) = <<>> /\ hist = prev.price_history)

\* a call that sent nothing (suppressed by the cooldown, or refused by the
\* sink) dropped the oldest of two samples and kept the other before its own
C30_Witness ==
    /\ outcome["change"] \in {"cooldown", "failed"}
    /\ Len(prev.price_history) = 2
    /\ Len(state.price_history) = 2
    /\ state.price_history[1] = prev.price_history[2]
    /\ state.price_history[2] = <<clock, avg_price>>

\* a cycle without a valid price, after a cycle that left a sample
C30_NoDataWitness ==
    pc = "nodata" /\ state.price_history # <<>>

(***************************************************************************)
(* terminal_dashboard.py: read_csv_tail, extract_series, select_window and *)
(* one refresh of draw_dashboard over the CSV file that                    *)
(* crypto_price_checker.py appends to.                                     *)
(***************************************************************************)
MaxLog == 3     \* rows the CSV file is followed up to
MaxNow == 4     \* seconds the file and the dashboard are followed for

\* max_rows of draw_dashboard's read_csv_tail and the seconds of its
\* select_window calls, scaled to the rows and seconds followed
TailCaps      == {2, 3}
WindowSeconds == {1, 2}

\* get_timestamp: strftime("%Y-%m-%d %H:%M:%S") of the second n, as text;
\* Garbled is a timestamp cell that holds no such text
strftime(n) == <<n>>
Garbled     == <<>>

\* datetime.strptime(t, "%Y-%m-%d %H:%M:%S"): the second the text names, or
\* an exception
strptimeError(t) == IF Len(t) = 1 THEN "none" ELSE "ValueError"
strptime(t)      == t[1]

\* the rows the file can gain: a timestamp cell, and the value of the row
\* (None when its cells are blank)
LogRows(now) ==
    {[timestamp |-> t, average |-> a] :
         t \in {strftime(now), Garbled}, a \in {None, Num(100000), Num(100200)}}

\* rows[-n:] for 0 < n < len(rows)
LastRows_Oldest(rows, n) == SubSeq(rows, 1, n)
LastRows(rows, n) == SubSeq(rows, Len(rows) - n + 1, Len(rows))

read_csv_tail(exists, file, max_rows) ==
    IF ~exists THEN <<>>
    ELSE IF Len(file) > max_rows THEN LastRows(file, max_rows)
    ELSE file

\* extract_series: ts and avgs, one entry per row
extract_series(rows) ==
    [ts   |-> [i \in 1..Len(rows) |-> rows[i].timestamp],
     avgs |-> [i \in 1..Len(rows) |-> rows[i].average]]

\* s[::-1]
Reversed(s) == [i \in 1..Len(s) |-> s[Len(s) + 1 - i]]

\* the loop of select_window from entry i back to the oldest: out, newest
\* first
RECURSIVE window_scan(_, _, _, _, _)
ScanGarbled_Skip(ts, values, i, end, seconds) ==
    window_scan(ts, values, i - 1, end, seconds)
\* "except Exception: break"
ScanGarbled(ts, values, i, end, seconds) == <<>>

window_scan(ts, values, i, end, seconds) ==
    IF i = 0 THEN <<>>
    ELSE IF strptimeError(ts[i]) # "none"
    THEN ScanGarbled(ts, values, i, end, seconds)
    ELSE LET delta == end - strptime(ts[i]) IN
         IF delta <= seconds
         THEN (IF values[i] # None THEN <<values[i]>> ELSE <<>>)
                  \o window_scan(ts, values, i - 1, end, seconds)
         ELSE <<>>

select_window(ts, values, seconds) ==
    IF ts = <<>> \/ values = <<>> THEN <<>>
    ELSE IF strptimeError(ts[Len(ts)]) # "none" THEN <<>>
    ELSE Reversed(window_scan(ts, values, Len(ts), strptime(ts[Len(ts)]), seconds))

DashInit ==
    /\ d_exists \in BOOLEAN
    /\ d_file = <<>>
    /\ d_now = 0
    /\ d_max_rows \in TailCaps
    /\ d_seconds \in WindowSeconds
    /\ d_rows = <<>>
    /\ d_window = <<>>
    /\ d_pc = "idle"

\* append_to_csv of crypto_price_checker.py writes a row, or a row that is
\* not of its making enters the file
DashAppend ==
    /\ UNCHANGED <<avars, mvars, svars, fvars>>
    /\ Len(d_file) < MaxLog
    /\ \E row \in LogRows(d_now) : d_file' = Append(d_file, row)
    /\ d_exists' = TRUE
    /\ d_pc' = "idle"
    /\ UNCHANGED <<d_now, d_max_rows, d_seconds, d_rows, d_window>>

\* a second passes
DashTick ==
    /\ UNCHANGED <<avars, mvars, svars, fvars>>
    /\ d_now < MaxNow
    /\ d_now' = d_now + 1
    /\ d_pc' = "idle"
    /\ UNCHANGED <<d_exists, d_file, d_max_rows, d_seconds, d_rows, d_window>>

\* draw_dashboard, one pass of "while True": rows = read_csv_tail(...),
\* extract_series(rows), select_window(ts, avgs, seconds)
DashRefresh ==
    /\ UNCHANGED <<avars, mvars, svars, fvars>>
    /\ d_pc = "idle"
    /\ LET rows   == read_csv_tail(d_exists, d_file, d_max_rows)
           series == extract_series(rows)
       IN  /\ d_rows' = rows
           /\ d_window' = select_window(series.ts, series.avgs, d_seconds)
    /\ d_pc' = "shown"
    /\ UNCHANGED <<d_exists, d_file, d_now, d_max_rows, d_seconds>>

DashNext ==
    \/ DashAppend
    \/ DashTick
    \/ DashRefresh

\* the dashboard over a growing CSV file
InitDash == AlertIdle /\ MonInit /\ StatsIdle /\ FetchIdle /\ DashInit
SpecDash == InitDash /\ [][DashNext]_vars

(***************************************************************************)
(* Properties of the dashboard's history and window (SpecDash).            *)
(***************************************************************************)
\* the non-null values of the rows at the indices idx, oldest first
ValuesAt(rows, idx) ==
    LET keep == {i \in idx : rows[i].average # None} IN
    [n \in 1..Cardinality(keep) |->
        rows[CHOOSE i \in keep : Cardinality({j \in keep : j <= i}) = n].average]

\* the indices of the rows whose timestamp does not parse
GarbledAt(rows) == {i \in 1..Len(rows) : strptimeError(rows[i].timestamp) # "none"}

\* C23: over a history whose timestamps all parse, select_window returns, in
\* chronological order, the non-null values of exactly the entries whose
\* timestamp lies within [now - seconds, now], now being the time of the
\* query.
C23_WindowRelativeToNow ==
    (d_pc = "shown" /\ GarbledAt(d_rows) = {})
    => d_window = ValuesAt(d_rows,
                           {i \in 1..Len(d_rows) :
                                /\ d_now - d_seconds <= strptime(d_rows[i].timestamp)
                                /\ strptime(d_rows[i].timestamp) <= d_now})

\* C25: when a timestamp of the history does not parse, select_window
\* returns, in chronological order, the non-null values of the entries that
\* are newer than the newest such entry and that the scan collected before
\* reaching it (those from which every entry up to the newest lies within
\* seconds of the newest); nothing when the newest entry itself does not
\* parse.
C25_GarbledIsBoundary ==
    LET n == Len(d_rows)
        k == CHOOSE i \in GarbledAt(d_rows) : \A j \in GarbledAt(d_rows) : j <= i
        Within(i) == strptime(d_rows[n].timestamp) - strptime(d_rows[i].timestamp)
                         <= d_seconds
    IN  (d_pc = "shown" /\ GarbledAt(d_rows) # {})
        => IF k = n THEN d_window = <<>>
           ELSE d_window = ValuesAt(d_rows, {j \in (k + 1)..n :
                                                 \A i \in j..n : Within(i)})

\* a row that does not parse lies between two rows that are within the
\* window and carry a value: the newer is returned, the older is not
C25_Witness ==
    /\ d_pc = "shown"
    /\ Len(d_rows) = 3
    /\ GarbledAt(d_rows) = {2}
    /\ d_rows[1].average # None
    /\ d_rows[3].average # None
    /\ strptime(d_rows[3].timestamp) - strptime(d_rows[1].timestamp) <= d_seconds
    /\ d_window = <<d_rows[3].average>>

\* C26: read_csv_tail never returns more than max_rows rows; of a file with
\* more rows it returns exactly the newest max_rows, in their order, and of
\* a file with at most max_rows rows it returns all of them.
C26_TailKeepsNewest ==
    LET n == Len(d_file) IN
    d_pc = "shown"
    => /\ Len(d_rows) <= d_max_rows
       /\ n > d_max_rows
          => /\ Len(d_rows) = d_max_rows
             /\ \A i \in 1..d_max_rows : d_rows[i] = d_file[n - d_max_rows + i]
       /\ n <= d_max_rows => d_rows = d_file

\* the file holds more rows than max_rows and its oldest row differs from
\* the rows returned
C26_Witness ==
    /\ d_pc = "shown"
    /\ Len(d_file) > d_max_rows
    /\ d_max_rows = 2
    /\ \A i \in 1..Len(d_rows) : d_rows[i] # d_file[1]

====
